---- MODULE Spec2Model ----
(***************************************************************************)
(* Filter translation of haystack/document_stores/filter_utils.py:         *)
(* a nested filter is parsed into a tree of logical and comparison         *)
(* operations, optionally inverted, and converted to an Elasticsearch or   *)
(* a Weaviate query document.                                              *)
(*                                                                         *)
(* Python values are records tagged with their Python type.  A Python      *)
(* dict whose keys are fixed strings is a record with those keys; a dict   *)
(* with computed keys is a sequence of entries in insertion order.  A      *)
(* raised exception is a record with the single field err.                 *)
(***************************************************************************)
EXTENDS Integers, Sequences, FiniteSets, TLC

VARIABLES
    filters,       \* the raw filter handed to parse (NoValue when the tree was built directly)
    root,          \* the tree as parsed or constructed
    tree,          \* the current tree: root after `inversions` calls of invert
    inversions,    \* number of invert calls applied to root
    result,        \* what the last conversion returned (document or exception)
    pc             \* "new", "parsed", "failed", "elasticsearch", "weaviate", "datatype"

vars == <<filters, root, tree, inversions, result, pc>>

(***************************************************************************)
(* Bounds of the model.                                                    *)
(***************************************************************************)
MaxNodes == 4        \* nodes of a directly constructed tree
MaxInversions == 2   \* invert calls applied to one tree
MaxOps == 2          \* operator keys in one comparison clause of a raw filter
MaxItems == 2        \* mappings in one list of a raw filter

(***************************************************************************)
(* Python values.                                                          *)
(***************************************************************************)
NoValue == [type |-> "NoneType"]
PyInt(n) == [type |-> "int", n |-> n, s |-> ""]
PyFloat(n) == [type |-> "float", n |-> n, s |-> ""]
PyBool(b) == [type |-> "bool", n |-> IF b THEN 1 ELSE 0, s |-> ""]
PyStr(s) == [type |-> "str", n |-> 0, s |-> s]
PyList(items) == [type |-> "list", items |-> items]
PyDict(entries) == [type |-> "dict", entries |-> entries]
Entry(k, v) == [key |-> k, value |-> v]

\* isinstance(value, cls) for the builtin classes: bool is a subclass of int.
isinstance(value, cls) ==
    \/ value.type = cls
    \/ cls = "int" /\ value.type = "bool"

Raise(e) == [err |-> e]
IsErr(d) == "err" \in DOMAIN d

\* The exception a list comprehension over `docs` propagates: that of the
\* first element whose evaluation raised.
RECURSIVE FirstErr(_)
FirstErr(docs) ==
    IF docs = <<>> THEN NoValue
    ELSE IF IsErr(Head(docs)) THEN Head(docs)
    ELSE FirstErr(Tail(docs))

AnyErr(docs) == \E i \in DOMAIN docs : IsErr(docs[i])

(***************************************************************************)
(* The tree: LogicalFilterClause and ComparisonOperation instances.        *)
(***************************************************************************)
LogicalClasses == {"NotOperation", "AndOperation", "OrOperation"}
ComparisonClasses ==
    {"EqOperation", "InOperation", "NeOperation", "NinOperation",
     "GtOperation", "GteOperation", "LtOperation", "LteOperation"}

\* LogicalFilterClause.__init__
Logical(cls, conditions) == [cls |-> cls, conditions |-> conditions]
\* ComparisonOperation.__init__: stores both arguments, checks nothing
Comparison(cls, field_name, comparison_value) ==
    [cls |-> cls, field_name |-> field_name, comparison_value |-> comparison_value]

IsLogical(node) == node.cls \in LogicalClasses
IsComparison(node) == node.cls \in ComparisonClasses

(***************************************************************************)
(* invert                                                                  *)
(***************************************************************************)
RECURSIVE invert(_)

NotOperation_invert(self) ==
    Logical("OrOperation", [i \in DOMAIN self.conditions |-> invert(self.conditions[i])])

AndOperation_invert(self) ==
    Logical("OrOperation", [i \in DOMAIN self.conditions |-> invert(self.conditions[i])])

OrOperation_invert(self) ==
    Logical("AndOperation", [i \in DOMAIN self.conditions |-> invert(self.conditions[i])])

\* A plausible slip in GtOperation.invert: the complement of > given as <.
ComparisonOperation_invert_strict(self) ==
    Comparison(
        CASE self.cls = "EqOperation" -> "NeOperation"
          [] self.cls = "InOperation" -> "NinOperation"
          [] self.cls = "NeOperation" -> "EqOperation"
          [] self.cls = "NinOperation" -> "InOperation"
          [] self.cls = "GtOperation" -> "LtOperation"
          [] self.cls = "GteOperation" -> "LtOperation"
          [] self.cls = "LtOperation" -> "GteOperation"
          [] self.cls = "LteOperation" -> "GtOperation",
        self.field_name, self.comparison_value)

\* The invert method of the eight comparison classes.
ComparisonOperation_invert(self) ==
    Comparison(
        CASE self.cls = "EqOperation" -> "NeOperation"
          [] self.cls = "InOperation" -> "NinOperation"
          [] self.cls = "NeOperation" -> "EqOperation"
          [] self.cls = "NinOperation" -> "InOperation"
          [] self.cls = "GtOperation" -> "LteOperation"
          [] self.cls = "GteOperation" -> "LtOperation"
          [] self.cls = "LtOperation" -> "GteOperation"
          [] self.cls = "LteOperation" -> "GtOperation",
        self.field_name, self.comparison_value)

\* Dynamic dispatch of self.invert() on the class of self.
invert(self) ==
    CASE self.cls = "NotOperation" -> NotOperation_invert(self)
      [] self.cls = "AndOperation" -> AndOperation_invert(self)
      [] self.cls = "OrOperation" -> OrOperation_invert(self)
      [] OTHER -> ComparisonOperation_invert(self)

(***************************************************************************)
(* Python dicts with computed keys: sequences of entries in insertion      *)
(* order, at most one entry per key.                                       *)
(***************************************************************************)
HasKey(d, k) == \E i \in DOMAIN d : d[i].key = k
DictGet(d, k) == d[CHOOSE i \in DOMAIN d : d[i].key = k].value
\* d[k] = v: an existing key keeps its position and takes the new value.
DictSet(d, k, v) ==
    IF HasKey(d, k)
    THEN [i \in DOMAIN d |-> IF d[i].key = k THEN Entry(k, v) ELSE d[i]]
    ELSE Append(d, Entry(k, v))

(***************************************************************************)
(* convert_to_elasticsearch                                                *)
(***************************************************************************)
\* range_conditions_dict[field_name][operation] = comparison_value, for each
\* range condition in order (nested_defaultdict creates a missing inner dict).
RECURSIVE range_conditions_dict(_, _)
range_conditions_dict(range_conditions, acc) ==
    IF range_conditions = <<>> THEN acc
    ELSE LET condition == Head(range_conditions)
             field_name == condition.field
             operation == condition.ops[1].key
             comparison_value == DictGet(condition.ops, operation)
             inner == IF HasKey(acc, field_name) THEN DictGet(acc, field_name) ELSE <<>>
         IN  range_conditions_dict(Tail(range_conditions),
                 DictSet(acc, field_name, DictSet(inner, operation, comparison_value)))

\* A slip in the merge: the merged range clauses put in front of the others.
merge_es_range_queries_front(conditions) ==
    LET ranges == SelectSeq(conditions, LAMBDA c : "range" \in DOMAIN c)
        range_conditions == [i \in DOMAIN ranges |-> ranges[i].range]
        merged == range_conditions_dict(range_conditions, <<>>)
    IN  IF range_conditions # <<>>
        THEN [i \in DOMAIN merged |-> [range |-> [field |-> merged[i].key, ops |-> merged[i].value]]]
             \o SelectSeq(conditions, LAMBDA c : "range" \notin DOMAIN c)
        ELSE conditions

\* LogicalFilterClause._merge_es_range_queries
merge_es_range_queries(conditions) ==
    LET ranges == SelectSeq(conditions, LAMBDA c : "range" \in DOMAIN c)
        range_conditions == [i \in DOMAIN ranges |-> ranges[i].range]
        merged == range_conditions_dict(range_conditions, <<>>)
    IN  IF range_conditions # <<>>
        THEN SelectSeq(conditions, LAMBDA c : "range" \notin DOMAIN c)
             \o [i \in DOMAIN merged |-> [range |-> [field |-> merged[i].key, ops |-> merged[i].value]]]
        ELSE conditions

\* {"range": {field_name: {op: comparison_value}}}
RangeClause(field_name, op, comparison_value) ==
    [range |-> [field |-> field_name, ops |-> <<Entry(op, comparison_value)>>]]

\* A slip in EqOperation.convert_to_elasticsearch: the assertion on the value left out.
ComparisonOperation_convert_to_elasticsearch_unchecked(self) ==
    LET f == self.field_name
        v == self.comparison_value
        is_list == isinstance(v, "list")
    IN  CASE self.cls = "EqOperation" ->
                [term |-> [field |-> f, value |-> v]]
          [] self.cls = "InOperation" ->
                IF ~is_list THEN Raise("AssertionError")
                ELSE [terms |-> [field |-> f, value |-> v]]
          [] self.cls = "NeOperation" ->
                IF is_list THEN Raise("AssertionError")
                ELSE [bool |-> [must_not |-> [term |-> [field |-> f, value |-> v]]]]
          [] self.cls = "NinOperation" ->
                IF ~is_list THEN Raise("AssertionError")
                ELSE [bool |-> [must_not |-> [terms |-> [field |-> f, value |-> v]]]]
          [] self.cls = "GtOperation" ->
                IF is_list THEN Raise("AssertionError") ELSE RangeClause(f, "gt", v)
          [] self.cls = "GteOperation" ->
                IF is_list THEN Raise("AssertionError") ELSE RangeClause(f, "gte", v)
          [] self.cls = "LtOperation" ->
                IF is_list THEN Raise("AssertionError") ELSE RangeClause(f, "lt", v)
          [] self.cls = "LteOperation" ->
                IF is_list THEN Raise("AssertionError") ELSE RangeClause(f, "lte", v)

\* convert_to_elasticsearch of the eight comparison classes.
ComparisonOperation_convert_to_elasticsearch(self) ==
    LET f == self.field_name
        v == self.comparison_value
        is_list == isinstance(v, "list")
    IN  CASE self.cls = "EqOperation" ->
                IF is_list THEN Raise("AssertionError")
                ELSE [term |-> [field |-> f, value |-> v]]
          [] self.cls = "InOperation" ->
                IF ~is_list THEN Raise("AssertionError")
                ELSE [terms |-> [field |-> f, value |-> v]]
          [] self.cls = "NeOperation" ->
                IF is_list THEN Raise("AssertionError")
                ELSE [bool |-> [must_not |-> [term |-> [field |-> f, value |-> v]]]]
          [] self.cls = "NinOperation" ->
                IF ~is_list THEN Raise("AssertionError")
                ELSE [bool |-> [must_not |-> [terms |-> [field |-> f, value |-> v]]]]
          [] self.cls = "GtOperation" ->
                IF is_list THEN Raise("AssertionError") ELSE RangeClause(f, "gt", v)
          [] self.cls = "GteOperation" ->
                IF is_list THEN Raise("AssertionError") ELSE RangeClause(f, "gte", v)
          [] self.cls = "LtOperation" ->
                IF is_list THEN Raise("AssertionError") ELSE RangeClause(f, "lt", v)
          [] self.cls = "LteOperation" ->
                IF is_list THEN Raise("AssertionError") ELSE RangeClause(f, "lte", v)

RECURSIVE convert_to_elasticsearch(_)

\* conditions = [condition.convert_to_elasticsearch() for condition in self.conditions]
es_conditions(self) ==
    [i \in DOMAIN self.conditions |-> convert_to_elasticsearch(self.conditions[i])]

NotOperation_convert_to_elasticsearch(self) ==
    LET conditions == es_conditions(self)
    IN  IF AnyErr(conditions) THEN FirstErr(conditions)
        ELSE [bool |-> [must_not |-> merge_es_range_queries(conditions)]]

AndOperation_convert_to_elasticsearch(self) ==
    LET conditions == es_conditions(self)
    IN  IF AnyErr(conditions) THEN FirstErr(conditions)
        ELSE [bool |-> [must |-> merge_es_range_queries(conditions)]]

OrOperation_convert_to_elasticsearch(self) ==
    LET conditions == es_conditions(self)
    IN  IF AnyErr(conditions) THEN FirstErr(conditions)
        ELSE [bool |-> [should |-> merge_es_range_queries(conditions)]]

convert_to_elasticsearch(self) ==
    CASE self.cls = "NotOperation" -> NotOperation_convert_to_elasticsearch(self)
      [] self.cls = "AndOperation" -> AndOperation_convert_to_elasticsearch(self)
      [] self.cls = "OrOperation" -> OrOperation_convert_to_elasticsearch(self)
      [] OTHER -> ComparisonOperation_convert_to_elasticsearch(self)

(***************************************************************************)
(* convert_to_weaviate                                                     *)
(***************************************************************************)
\* The strings the date normalizer accepts, with their RFC3339 form.
Rfc3339Dates ==
    [date \in {"2015-01-01", "2021-01-01"} |-> date \o "T00:00:00Z"]

\* WeaviateDocumentStore._convert_date_to_rfc3339: the normalized date, or
\* ValueError for a string that is no date.
convert_date_to_rfc3339(value) ==
    IF value.s \in DOMAIN Rfc3339Dates
    THEN PyStr(Rfc3339Dates[value.s])
    ELSE Raise("ValueError")

\* ComparisonOperation._get_weaviate_datatype; value = NoValue is the default
\* argument None.  The tests run in the order of the source.
get_weaviate_datatype(self, value) ==
    LET v == IF value = NoValue THEN self.comparison_value ELSE value
    IN  IF value = NoValue /\ isinstance(self.comparison_value, "list")
        THEN Raise("AssertionError")
        ELSE IF isinstance(v, "str")
        THEN IF IsErr(convert_date_to_rfc3339(v))
             THEN [data_type |-> "valueString", value |-> v]
             ELSE [data_type |-> "valueDate", value |-> convert_date_to_rfc3339(v)]
        ELSE IF isinstance(v, "int")
        THEN [data_type |-> "valueInt", value |-> v]
        ELSE IF isinstance(v, "float")
        THEN [data_type |-> "valueNumber", value |-> v]
        ELSE IF isinstance(v, "bool")
        THEN [data_type |-> "valueBoolean", value |-> v]
        ELSE Raise("ValueError")

\* {"path": [field_name], "operator": operator, comp_value_type: comp_value}:
\* the computed key is the field valueType, its value the field value.
WeaviateLeaf(field_name, operator, typed) ==
    [path |-> <<field_name>>, operator |-> operator,
     valueType |-> typed.data_type, value |-> typed.value]

WeaviateOperator(cls) ==
    CASE cls = "EqOperation" -> "Equal"
      [] cls = "NeOperation" -> "NotEqual"
      [] cls = "GtOperation" -> "GreaterThan"
      [] cls = "GteOperation" -> "GreaterThanEqual"
      [] cls = "LtOperation" -> "LessThan"
      [] cls = "LteOperation" -> "LessThanEqual"

\* convert_to_weaviate of Eq, Ne, Gt, Gte, Lt and Lte.  The assertion of the
\* four range classes that comp_value is no list follows _get_weaviate_datatype,
\* which has already raised for a list, and never fails.
ScalarOperation_convert_to_weaviate(self) ==
    LET typed == get_weaviate_datatype(self, NoValue)
    IN  IF IsErr(typed) THEN typed
        ELSE WeaviateLeaf(self.field_name, WeaviateOperator(self.cls), typed)

\* convert_to_weaviate of In (Or of Equal) and Nin (And of NotEqual).
ListOperation_convert_to_weaviate(self) ==
    IF ~isinstance(self.comparison_value, "list") THEN Raise("AssertionError")
    ELSE LET items == self.comparison_value.items
             typed == [i \in DOMAIN items |-> get_weaviate_datatype(self, items[i])]
             leaf == IF self.cls = "InOperation" THEN "Equal" ELSE "NotEqual"
         IN  IF AnyErr(typed) THEN FirstErr(typed)
             ELSE [operator |-> IF self.cls = "InOperation" THEN "Or" ELSE "And",
                   operands |-> [i \in DOMAIN items |->
                                    WeaviateLeaf(self.field_name, leaf, typed[i])]]

RECURSIVE convert_to_weaviate(_)

\* A slip in NotOperation.convert_to_weaviate: the single condition wrapped too.
NotOperation_convert_to_weaviate_wrapped(self) ==
    LET conditions ==
            [i \in DOMAIN self.conditions |-> convert_to_weaviate(invert(self.conditions[i]))]
    IN  IF AnyErr(conditions) THEN FirstErr(conditions)
        ELSE IF Len(conditions) >= 1
        THEN [operator |-> "And", operands |-> conditions]
        ELSE Raise("IndexError")

NotOperation_convert_to_weaviate(self) ==
    LET conditions ==
            [i \in DOMAIN self.conditions |-> convert_to_weaviate(invert(self.conditions[i]))]
    IN  IF AnyErr(conditions) THEN FirstErr(conditions)
        ELSE IF Len(conditions) > 1
        THEN [operator |-> "And", operands |-> conditions]
        ELSE IF Len(conditions) = 0 THEN Raise("IndexError")
        ELSE conditions[1]

AndOperation_convert_to_weaviate(self) ==
    LET conditions ==
            [i \in DOMAIN self.conditions |-> convert_to_weaviate(self.conditions[i])]
    IN  IF AnyErr(conditions) THEN FirstErr(conditions)
        ELSE [operator |-> "And", operands |-> conditions]

OrOperation_convert_to_weaviate(self) ==
    LET conditions ==
            [i \in DOMAIN self.conditions |-> convert_to_weaviate(self.conditions[i])]
    IN  IF AnyErr(conditions) THEN FirstErr(conditions)
        ELSE [operator |-> "Or", operands |-> conditions]

convert_to_weaviate(self) ==
    CASE self.cls = "NotOperation" -> NotOperation_convert_to_weaviate(self)
      [] self.cls = "AndOperation" -> AndOperation_convert_to_weaviate(self)
      [] self.cls = "OrOperation" -> OrOperation_convert_to_weaviate(self)
      [] self.cls \in {"InOperation", "NinOperation"} -> ListOperation_convert_to_weaviate(self)
      [] OTHER -> ScalarOperation_convert_to_weaviate(self)

(***************************************************************************)
(* parse                                                                   *)
(***************************************************************************)
ComparisonClassOf(comparison_operation) ==
    CASE comparison_operation = "$eq" -> "EqOperation"
      [] comparison_operation = "$in" -> "InOperation"
      [] comparison_operation = "$ne" -> "NeOperation"
      [] comparison_operation = "$nin" -> "NinOperation"
      [] comparison_operation = "$gt" -> "GtOperation"
      [] comparison_operation = "$gte" -> "GteOperation"
      [] comparison_operation = "$lt" -> "LtOperation"
      [] comparison_operation = "$lte" -> "LteOperation"
      [] OTHER -> "none"

\* The loop of ComparisonOperation.parse over the items of a clause dict: a
\* key that is none of the eight operators appends nothing.
RECURSIVE comparison_operations(_, _, _)
comparison_operations(field_name, entries, acc) ==
    IF entries = <<>> THEN acc
    ELSE LET cls == ComparisonClassOf(Head(entries).key)
         IN  comparison_operations(field_name, Tail(entries),
                 IF cls = "none" THEN acc
                 ELSE Append(acc, Comparison(cls, field_name, Head(entries).value)))

\* ComparisonOperation.parse
ComparisonOperation_parse(field_name, comparison_clause) ==
    IF isinstance(comparison_clause, "dict")
    THEN comparison_operations(field_name, comparison_clause.entries, <<>>)
    ELSE IF isinstance(comparison_clause, "list")
    THEN <<Comparison("InOperation", field_name, comparison_clause)>>
    ELSE <<Comparison("EqOperation", field_name, comparison_clause)>>

RECURSIVE parse(_, _), parse_item(_, _), parse_items(_, _)

\* for key, value in item.items(): the conditions appended to acc, or the
\* exception of the first nested parse that raised.
parse_item(entries, acc) ==
    IF entries = <<>> THEN [conditions |-> acc]
    ELSE LET key == Head(entries).key
             value == Head(entries).value
             nested == CASE key = "$not" -> parse("NotOperation", value)
                         [] key = "$and" -> parse("AndOperation", value)
                         [] key = "$or" -> parse("OrOperation", value)
                         [] OTHER -> NoValue
         IN  IF key \in {"$not", "$and", "$or"}
             THEN IF IsErr(nested) THEN nested
                  ELSE parse_item(Tail(entries), Append(acc, nested))
             ELSE parse_item(Tail(entries), acc \o ComparisonOperation_parse(key, value))

\* for item in filter_term: an item that is no dict has no items() method.
parse_items(items, acc) ==
    IF items = <<>> THEN [conditions |-> acc]
    ELSE IF ~isinstance(Head(items), "dict") THEN Raise("AttributeError")
    ELSE LET r == parse_item(Head(items).entries, acc)
         IN  IF IsErr(r) THEN r ELSE parse_items(Tail(items), r.conditions)

\* LogicalFilterClause.parse, called on the class cls.  A filter_term that is
\* neither a dict nor a list cannot be iterated over mappings.
parse(cls, filter_term) ==
    LET r == IF isinstance(filter_term, "dict") THEN parse_items(<<filter_term>>, <<>>)
             ELSE IF isinstance(filter_term, "list") THEN parse_items(filter_term.items, <<>>)
             ELSE Raise("TypeError")
    IN  IF IsErr(r) THEN r
        ELSE IF cls = "LogicalFilterClause"
        THEN IF Len(r.conditions) = 1
             THEN r.conditions[1]
             ELSE Logical("AndOperation", r.conditions)
        ELSE Logical(cls, r.conditions)

(***************************************************************************)
(* The trees the model constructs.                                         *)
(***************************************************************************)
Leaves ==
    { Comparison("GtOperation", "x", PyInt(1)),
      Comparison("GtOperation", "x", PyInt(2)),
      Comparison("GteOperation", "y", PyInt(1)),
      Comparison("EqOperation", "x", PyInt(1)) }

RECURSIVE TreesOfSize(_), ForestsOfSize(_)
TreesOfSize(n) ==
    IF n = 1 THEN Leaves
    ELSE {Logical(c, f) : c \in LogicalClasses, f \in ForestsOfSize(n - 1)}
ForestsOfSize(m) ==
    IF m = 0 THEN {<<>>}
    ELSE UNION { {<<t>> \o f : t \in TreesOfSize(j), f \in ForestsOfSize(m - j)} : j \in 1..m }

\* Comparison values of every kind, well-formed or not.
Values ==
    { PyInt(1), PyFloat(1), PyBool(TRUE), PyBool(FALSE), PyStr("article"),
      PyStr("2015-01-01"), PyList(<<PyInt(1), PyInt(2)>>), PyList(<<PyInt(1)>>),
      PyList(<<PyStr("article"), PyBool(TRUE)>>), PyList(<<>>), PyDict(<<>>), NoValue }

TypedLeaves == {Comparison(c, "x", v) : c \in ComparisonClasses, v \in Values}

Trees ==
    TypedLeaves \cup {Logical(c, <<>>) : c \in LogicalClasses}
    \cup UNION {TreesOfSize(n) : n \in 1..MaxNodes}

(***************************************************************************)
(* The raw filters the model parses.                                       *)
(***************************************************************************)
\* Sequences over S of length at most n.
RECURSIVE SeqsUpTo(_, _)
SeqsUpTo(S, n) ==
    IF n = 0 THEN {<<>>}
    ELSE SeqsUpTo(S, n - 1) \cup {Append(q, x) : q \in SeqsUpTo(S, n - 1), x \in S}

DistinctKeys(entries) ==
    \A i, j \in DOMAIN entries : entries[i].key = entries[j].key => i = j

OperatorKeys ==
    {"$eq", "$in", "$ne", "$nin", "$gt", "$gte", "$lt", "$lte", "$regex"}
OperandValues == {PyInt(1), PyList(<<PyInt(1), PyInt(2)>>)}

\* {operator: value}, and {operator: value, ...} with at most MaxOps keys,
\* none repeated
ClauseDicts ==
    { PyDict(<<Entry(k, v)>>) : k \in OperatorKeys, v \in OperandValues }
    \cup { PyDict(es) : es \in { q \in SeqsUpTo(
                { Entry("$gte", PyInt(1)), Entry("$lt", PyInt(2)), Entry("$regex", PyInt(1)),
                  Entry("$eq", PyList(<<PyInt(1), PyInt(2)>>)), Entry("$in", PyInt(1)) },
                MaxOps) : DistinctKeys(q) } }
Clauses == ClauseDicts \cup OperandValues

SmallClauses ==
    { PyInt(1), PyList(<<PyInt(1), PyInt(2)>>), PyDict(<<>>),
      PyDict(<<Entry("$gt", PyInt(1))>>),
      PyDict(<<Entry("$gte", PyInt(1)), Entry("$lt", PyInt(2))>>),
      PyDict(<<Entry("$regex", PyInt(1))>>),
      PyDict(<<Entry("$in", PyInt(1))>>) }

SingleDicts ==
    { PyDict(<<Entry("x", PyInt(1))>>),
      PyDict(<<Entry("x", PyDict(<<Entry("$gt", PyInt(1))>>))>>),
      PyDict(<<Entry("x", PyDict(<<Entry("$gt", PyInt(2))>>))>>),
      PyDict(<<Entry("y", PyDict(<<Entry("$gte", PyInt(1)), Entry("$lt", PyInt(2))>>))>>),
      PyDict(<<Entry("y", PyDict(<<Entry("$in", PyInt(1))>>))>>),
      PyDict(<<>>) }
SmallDicts ==
    {PyDict(<<>>)} \cup {PyDict(<<Entry("x", c)>>) : c \in SmallClauses}
    \cup {PyDict(<<Entry("x", c), Entry("y", d)>>) : c, d \in SmallClauses}
DictLists == {PyList(q) : q \in SeqsUpTo(SingleDicts, MaxItems)}

\* What a "$and", "$or" or "$not" key maps to; an integer is malformed.
Operands == SmallDicts \cup DictLists \cup {PyInt(1)}
LogicalKeys == {"$and", "$or", "$not"}

RawFilters ==
    {PyDict(<<Entry("x", c)>>) : c \in Clauses}
    \cup SmallDicts
    \cup DictLists
    \cup {PyDict(<<Entry(k, o)>>) : k \in LogicalKeys, o \in Operands}
    \cup {PyDict(<<Entry("x", PyInt(1)), Entry(k, o)>>) : k \in LogicalKeys, o \in SmallDicts}
    \cup {PyDict(<<Entry(k, PyDict(<<Entry(j, o)>>))>>) : k, j \in LogicalKeys, o \in SmallDicts}

(***************************************************************************)
(* The state machine.                                                      *)
(***************************************************************************)
Init ==
    /\ filters = NoValue
    /\ root = NoValue
    /\ tree = NoValue
    /\ inversions = 0
    /\ result = NoValue
    /\ pc = "new"

\* A tree built directly with the constructors.
Construct(t) ==
    /\ pc = "new"
    /\ root' = t
    /\ tree' = t
    /\ pc' = "parsed"
    /\ UNCHANGED <<filters, inversions, result>>

\* root = LogicalFilterClause.parse(raw)
Parse(raw) ==
    /\ pc = "new"
    /\ filters' = raw
    /\ LET parsed == parse("LogicalFilterClause", raw)
       IN  IF IsErr(parsed)
           THEN /\ result' = parsed
                /\ pc' = "failed"
                /\ UNCHANGED <<root, tree>>
           ELSE /\ root' = parsed
                /\ tree' = parsed
                /\ pc' = "parsed"
                /\ UNCHANGED result
    /\ UNCHANGED inversions

\* tree = tree.invert()
Invert ==
    /\ pc = "parsed"
    /\ inversions < MaxInversions
    /\ tree' = invert(tree)
    /\ inversions' = inversions + 1
    /\ UNCHANGED <<filters, root, result, pc>>

\* result = tree.convert_to_elasticsearch()
ConvertToElasticsearch ==
    /\ pc = "parsed"
    /\ result' = convert_to_elasticsearch(tree)
    /\ pc' = "elasticsearch"
    /\ UNCHANGED <<filters, root, tree, inversions>>

\* result = tree.convert_to_weaviate()
ConvertToWeaviate ==
    /\ pc = "parsed"
    /\ result' = convert_to_weaviate(tree)
    /\ pc' = "weaviate"
    /\ UNCHANGED <<filters, root, tree, inversions>>

\* result = tree._get_weaviate_datatype(), on a comparison
GetWeaviateDatatype ==
    /\ pc = "parsed"
    /\ IsComparison(tree)
    /\ result' = get_weaviate_datatype(tree, NoValue)
    /\ pc' = "datatype"
    /\ UNCHANGED <<filters, root, tree, inversions>>

Next ==
    \/ \E raw \in RawFilters : Parse(raw)
    \/ \E t \in Trees : Construct(t)
    \/ ConvertToWeaviate
    \/ GetWeaviateDatatype
    \/ Invert
    \/ ConvertToElasticsearch

Spec == Init /\ [][Next]_vars

(***************************************************************************)
(* Vocabulary of the properties.                                           *)
(***************************************************************************)
RECURSIVE NotFree(_)
NotFree(node) ==
    IF IsLogical(node)
    THEN node.cls # "NotOperation"
         /\ \A i \in DOMAIN node.conditions : NotFree(node.conditions[i])
    ELSE TRUE

\* Every logical node of the tree has at least one child.
RECURSIVE NoEmptyLogical(_)
NoEmptyLogical(node) ==
    IF IsLogical(node)
    THEN node.conditions # <<>>
         /\ \A i \in DOMAIN node.conditions : NoEmptyLogical(node.conditions[i])
    ELSE TRUE

ListClasses == {"InOperation", "NinOperation"}

\* A comparison whose value has the wrong arity for its operator.
WrongArity(node) ==
    /\ IsComparison(node)
    /\ (node.cls \in ListClasses) # isinstance(node.comparison_value, "list")

RECURSIVE HasWrongArity(_)
HasWrongArity(node) ==
    IF IsLogical(node)
    THEN \E i \in DOMAIN node.conditions : HasWrongArity(node.conditions[i])
    ELSE WrongArity(node)

\* Comparisons of integers only, each with the arity of its operator.
RECURSIVE IntTyped(_)
IntTyped(node) ==
    IF IsLogical(node)
    THEN \A i \in DOMAIN node.conditions : IntTyped(node.conditions[i])
    ELSE LET v == node.comparison_value
         IN  IF node.cls \in ListClasses
             THEN v.type = "list" /\ \A i \in DOMAIN v.items : v.items[i].type = "int"
             ELSE v.type = "int"

\* The documents a filter is matched against: a value for every field.
Assignments == [{"x", "y"} -> 0..3]

\* Whether an integer-typed tree matches the assignment a: And when all
\* children match, Or when one does, Not when not all children match.
RECURSIVE Matches(_, _)
Matches(node, a) ==
    LET v == node.comparison_value
        x == a[node.field_name]
    IN  CASE node.cls = "AndOperation" ->
                \A i \in DOMAIN node.conditions : Matches(node.conditions[i], a)
          [] node.cls = "OrOperation" ->
                \E i \in DOMAIN node.conditions : Matches(node.conditions[i], a)
          [] node.cls = "NotOperation" ->
                ~ \A i \in DOMAIN node.conditions : Matches(node.conditions[i], a)
          [] node.cls = "EqOperation" -> x = v.n
          [] node.cls = "NeOperation" -> x # v.n
          [] node.cls = "InOperation" -> \E i \in DOMAIN v.items : x = v.items[i].n
          [] node.cls = "NinOperation" -> \A i \in DOMAIN v.items : x # v.items[i].n
          [] node.cls = "GtOperation" -> x > v.n
          [] node.cls = "GteOperation" -> x >= v.n
          [] node.cls = "LtOperation" -> x < v.n
          [] node.cls = "LteOperation" -> x <= v.n

\* The clause list of {"bool": {must | should | must_not: [...]}}.
BoolClauses(doc) ==
    CASE "must" \in DOMAIN doc.bool -> doc.bool.must
      [] "should" \in DOMAIN doc.bool -> doc.bool.should
      [] "must_not" \in DOMAIN doc.bool -> doc.bool.must_not

IsRange(clause) == "range" \in DOMAIN clause

\* The tree came out of parse and parse returned.
Parsed == filters # NoValue /\ pc \notin {"new", "failed"}

(***************************************************************************)
(* C1: convert_to_weaviate of a Not node is the emission of                *)
(* invert(And(cs)): with two or more children the document                 *)
(* {operator: "Or", operands: [emission of invert(c) for c in cs]}, with   *)
(* one child the emission of invert(c) alone.                              *)
(***************************************************************************)
C1_NotEmitsInvertedAnd ==
    (/\ pc = "weaviate"
     /\ tree.cls = "NotOperation"
     /\ tree.conditions # <<>>
     /\ ~IsErr(result))
    => result =
        IF Len(tree.conditions) >= 2
        THEN [operator |-> "Or",
              operands |-> [i \in DOMAIN tree.conditions |->
                               convert_to_weaviate(invert(tree.conditions[i]))]]
        ELSE convert_to_weaviate(invert(tree.conditions[1]))

(***************************************************************************)
(* C2: invert(T) holds no Not node and is the logical negation of T: it    *)
(* matches an assignment exactly when T does not.                          *)
(***************************************************************************)
C2_InvertIsNegation ==
    (pc = "parsed" /\ inversions = 1 /\ IntTyped(root) /\ NoEmptyLogical(root))
    => /\ NotFree(tree)
       /\ \A a \in Assignments : Matches(tree, a) = ~Matches(root, a)

(***************************************************************************)
(* C3 as stated: invert(invert(T)) is structurally equal to T, for every   *)
(* tree T built from And, Or, Not and the comparisons.                     *)
(***************************************************************************)
C3_DoubleInvertIsIdentity ==
    (inversions = 2 /\ NoEmptyLogical(root)) => tree = root

(***************************************************************************)
(* C3 as amended: invert(invert(T)) is structurally equal to T for every   *)
(* tree T that holds no Not node.                                          *)
(***************************************************************************)
C3_DoubleInvertIsIdentityNotFree ==
    (inversions = 2 /\ NotFree(root)) => tree = root

C3_Witness ==
    /\ inversions = 2
    /\ NotFree(root)
    /\ root.cls = "AndOperation"
    /\ Len(root.conditions) = 2
    /\ root.conditions[1].cls = "OrOperation"
    /\ root.conditions[2].cls = "GtOperation"
    /\ tree = root

(***************************************************************************)
(* C4: after the range merge the clause list of a logical node holds at    *)
(* most one range clause per field, and every {field: {op: value}} range   *)
(* clause emitted by a direct child is found in the merged clause of its   *)
(* field: op maps to that value there.                                     *)
(***************************************************************************)
C4_MergeKeepsEveryPair ==
    (pc = "elasticsearch" /\ IsLogical(tree) /\ ~IsErr(result))
    => LET clauses == BoolClauses(result)
           emitted == es_conditions(tree)
       IN  /\ \A i, j \in DOMAIN clauses :
                (IsRange(clauses[i]) /\ IsRange(clauses[j])
                 /\ clauses[i].range.field = clauses[j].range.field) => i = j
           /\ \A k \in DOMAIN emitted :
                IsRange(emitted[k]) =>
                    \E i \in DOMAIN clauses :
                        /\ IsRange(clauses[i])
                        /\ clauses[i].range.field = emitted[k].range.field
                        /\ HasKey(clauses[i].range.ops, emitted[k].range.ops[1].key)
                        /\ DictGet(clauses[i].range.ops, emitted[k].range.ops[1].key)
                               = emitted[k].range.ops[1].value

(***************************************************************************)
(* C5: _get_weaviate_datatype classifies a value by its kind: a date       *)
(* string gives valueDate with the normalized value, another string        *)
(* valueString, an integer valueInt, a float valueNumber, a boolean        *)
(* valueBoolean, and any other kind of value raises.                       *)
(***************************************************************************)
C5_DatatypeByKind ==
    pc = "datatype" =>
        LET v == tree.comparison_value
        IN  CASE v.type = "str" /\ ~IsErr(convert_date_to_rfc3339(v)) ->
                    result = [data_type |-> "valueDate", value |-> convert_date_to_rfc3339(v)]
              [] v.type = "str" /\ IsErr(convert_date_to_rfc3339(v)) ->
                    result = [data_type |-> "valueString", value |-> v]
              [] v.type = "int" -> result = [data_type |-> "valueInt", value |-> v]
              [] v.type = "float" -> result = [data_type |-> "valueNumber", value |-> v]
              [] v.type = "bool" -> result = [data_type |-> "valueBoolean", value |-> v]
              [] OTHER -> IsErr(result)

(***************************************************************************)
(* C6 as stated: a comparison with the wrong arity (In or NotIn with a     *)
(* scalar, one of the six others with a list) fails during parse: no such  *)
(* node exists in a parsed tree.                                           *)
(***************************************************************************)
C6_WrongArityFailsInParse ==
    Parsed => ~HasWrongArity(root)

\* {"x": {operator: value, ...}} where some recognized operator has a value
\* of the wrong arity.
RawWrongArity(raw) ==
    /\ raw.type = "dict"
    /\ Len(raw.entries) = 1
    /\ raw.entries[1].key \notin LogicalKeys
    /\ raw.entries[1].value.type = "dict"
    /\ \E i \in DOMAIN raw.entries[1].value.entries :
          LET e == raw.entries[1].value.entries[i]
          IN  /\ ComparisonClassOf(e.key) # "none"
              /\ (ComparisonClassOf(e.key) \in ListClasses) # (e.value.type = "list")

(***************************************************************************)
(* C6 as amended: parse does not fail on a comparison with the wrong       *)
(* arity, it returns a tree that holds the node; the failure is deferred   *)
(* to emission: convert_to_elasticsearch and convert_to_weaviate raise on  *)
(* every tree that holds such a node.                                      *)
(***************************************************************************)
C6_WrongArityFailsInEmitter ==
    /\ (pc # "new" /\ RawWrongArity(filters)) => (pc # "failed" /\ HasWrongArity(root))
    /\ (pc \in {"elasticsearch", "weaviate"} /\ HasWrongArity(tree)) => IsErr(result)

C6_Witness ==
    /\ pc = "elasticsearch"
    /\ RawWrongArity(filters)
    /\ root = Comparison("EqOperation", "x", PyList(<<PyInt(1), PyInt(2)>>))
    /\ tree = root
    /\ result = Raise("AssertionError")

(***************************************************************************)
(* C7: every And, Or or Not node of a tree returned by parse has at least  *)
(* one child; an input that would give a node without children fails.      *)
(***************************************************************************)
C7_ParsedLogicalNodesHaveChildren ==
    Parsed => NoEmptyLogical(root)

\* The conditions parse collects from its argument, as far as they are
\* collected without an exception.
Collected(raw) ==
    IF raw.type = "dict" THEN parse_items(<<raw>>, <<>>)
    ELSE IF raw.type = "list" THEN parse_items(raw.items, <<>>)
    ELSE Raise("TypeError")

(***************************************************************************)
(* C8: the collapse rule of parse.  At the top level the single collected  *)
(* condition is returned unwrapped, and an And node over the collected     *)
(* conditions is returned only when there is more than one; under a "$and",*)
(* "$or" or "$not" key the collected conditions are wrapped, in input      *)
(* order, in that operator's node whatever their number.                   *)
(***************************************************************************)
C8_CollapseRule ==
    (Parsed /\ inversions = 0) =>
        LET conditions == Collected(filters).conditions
        IN  /\ Len(conditions) = 1 => root = conditions[1]
            /\ Len(conditions) > 1 => root = Logical("AndOperation", conditions)
            /\ root = Logical("AndOperation", conditions) => Len(conditions) > 1
            /\ (filters.type = "dict" /\ Len(filters.entries) = 1
                /\ filters.entries[1].key \in LogicalKeys)
               => LET cls == CASE filters.entries[1].key = "$and" -> "AndOperation"
                               [] filters.entries[1].key = "$or" -> "OrOperation"
                               [] filters.entries[1].key = "$not" -> "NotOperation"
                  IN  root = Logical(cls, Collected(filters.entries[1].value).conditions)

\* No {operator, operands} node of the document has exactly one operand.
RECURSIVE NoSingletonOperands(_)
NoSingletonOperands(doc) ==
    IF "operands" \in DOMAIN doc
    THEN Len(doc.operands) # 1
         /\ \A i \in DOMAIN doc.operands : NoSingletonOperands(doc.operands[i])
    ELSE TRUE

(***************************************************************************)
(* C9 as stated: no document returned by convert_to_weaviate, for a tree   *)
(* with at least one child per logical node, holds an {operator, operands} *)
(* node with exactly one operand.                                          *)
(***************************************************************************)
C9_NoSingletonOperands ==
    (pc = "weaviate" /\ NoEmptyLogical(tree) /\ ~IsErr(result))
    => NoSingletonOperands(result)

(***************************************************************************)
(* C9 as amended: only a Not node with exactly one child is replaced by    *)
(* the emission of its (inverted) child.  An And or Or node is emitted as  *)
(* an {operator, operands} node with one operand per child, and an In or   *)
(* NotIn comparison with one operand per list element, also when that is   *)
(* a single one.                                                           *)
(***************************************************************************)
C9_OnlyNotUnwrapsSingleChild ==
    (pc = "weaviate" /\ ~IsErr(result)) =>
        /\ (tree.cls = "NotOperation" /\ Len(tree.conditions) = 1)
           => result = convert_to_weaviate(invert(tree.conditions[1]))
        /\ tree.cls \in {"AndOperation", "OrOperation"}
           => /\ result.operator = (IF tree.cls = "AndOperation" THEN "And" ELSE "Or")
              /\ Len(result.operands) = Len(tree.conditions)
        /\ tree.cls \in ListClasses
           => /\ result.operator = (IF tree.cls = "InOperation" THEN "Or" ELSE "And")
              /\ Len(result.operands) = Len(tree.comparison_value.items)

C9_Witness ==
    /\ pc = "weaviate"
    /\ tree = Logical("NotOperation",
                  <<Logical("AndOperation", <<Comparison("EqOperation", "x", PyInt(1))>>)>>)
    /\ result = [operator |-> "Or", operands |->
                    <<[path |-> <<"x">>, operator |-> "NotEqual",
                       valueType |-> "valueInt", value |-> PyInt(1)]>>]

\* The first position of a range clause on `field` among the emitted clauses.
FirstRange(emitted, field) ==
    CHOOSE k \in DOMAIN emitted :
        /\ IsRange(emitted[k]) /\ emitted[k].range.field = field
        /\ \A h \in 1..(k - 1) : ~(IsRange(emitted[h]) /\ emitted[h].range.field = field)

\* The last position of a range clause on `field` among the emitted clauses.
LastRange(emitted, field) ==
    CHOOSE k \in DOMAIN emitted :
        /\ IsRange(emitted[k]) /\ emitted[k].range.field = field
        /\ \A h \in (k + 1)..Len(emitted) : ~(IsRange(emitted[h]) /\ emitted[h].range.field = field)

\* The clauses that stay where they are when the merged clause of a field
\* takes the place of the field's last range clause.
KeptInPlace(emitted) ==
    SelectSeq([k \in DOMAIN emitted |-> [at |-> k, clause |-> emitted[k]]],
              LAMBDA e : IsRange(e.clause) => LastRange(emitted, e.clause.range.field) = e.at)

(***************************************************************************)
(* C10 as stated: in the clause list of a logical node every non-range     *)
(* clause stays at its relative position and the merged range clause of a  *)
(* field sits at the position of the field's last original range clause.   *)
(***************************************************************************)
C10_MergedRangeAtLastPosition ==
    (pc = "elasticsearch" /\ IsLogical(tree) /\ ~IsErr(result)) =>
        LET clauses == BoolClauses(result)
            kept == KeptInPlace(es_conditions(tree))
        IN  /\ Len(clauses) = Len(kept)
            /\ \A i \in DOMAIN kept :
                  IF IsRange(kept[i].clause)
                  THEN IsRange(clauses[i])
                       /\ clauses[i].range.field = kept[i].clause.range.field
                  ELSE clauses[i] = kept[i].clause

(***************************************************************************)
(* C10 as amended: the non-range clauses come first, in the order of the   *)
(* children that emitted them; the merged range clauses follow them at the *)
(* end of the list, one per field, in the order in which each field's      *)
(* first range clause was emitted.                                         *)
(***************************************************************************)
C10_MergedRangesAppended ==
    (pc = "elasticsearch" /\ IsLogical(tree) /\ ~IsErr(result)) =>
        LET clauses == BoolClauses(result)
            emitted == es_conditions(tree)
            others == SelectSeq(emitted, LAMBDA c : ~IsRange(c))
        IN  /\ Len(clauses) >= Len(others)
            /\ SubSeq(clauses, 1, Len(others)) = others
            /\ \A i \in (Len(others) + 1)..Len(clauses) :
                  /\ IsRange(clauses[i])
                  /\ \E k \in DOMAIN emitted :
                        IsRange(emitted[k]) /\ emitted[k].range.field = clauses[i].range.field
            /\ \A k \in DOMAIN emitted :
                  IsRange(emitted[k]) =>
                      \E i \in (Len(others) + 1)..Len(clauses) :
                          clauses[i].range.field = emitted[k].range.field
            /\ \A i, j \in (Len(others) + 1)..Len(clauses) :
                  i < j => FirstRange(emitted, clauses[i].range.field)
                               < FirstRange(emitted, clauses[j].range.field)

C10_Witness ==
    /\ pc = "elasticsearch"
    /\ tree = Logical("AndOperation",
                  <<Comparison("GteOperation", "y", PyInt(1)),
                    Comparison("EqOperation", "x", PyInt(1)),
                    Comparison("GtOperation", "x", PyInt(1))>>)
    /\ BoolClauses(result) =
          <<[term |-> [field |-> "x", value |-> PyInt(1)]],
            RangeClause("y", "gte", PyInt(1)),
            RangeClause("x", "gt", PyInt(1))>>

\* A range clause read as the conjunction of its bounds.
RangeMatches(clause, a) ==
    \A i \in DOMAIN clause.range.ops :
        LET x == a[clause.range.field]
            bound == clause.range.ops[i]
        IN  CASE bound.key = "gt" -> x > bound.value.n
              [] bound.key = "gte" -> x >= bound.value.n
              [] bound.key = "lt" -> x < bound.value.n
              [] bound.key = "lte" -> x <= bound.value.n

\* The clause a comparison emits, read on the assignment a.
LeafClauseMatches(node, a) ==
    LET clause == ComparisonOperation_convert_to_elasticsearch(node)
    IN  CASE node.cls = "EqOperation" -> a[clause.term.field] = clause.term.value.n
          [] node.cls = "NeOperation" ->
                a[clause.bool.must_not.term.field] # clause.bool.must_not.term.value.n
          [] node.cls = "InOperation" ->
                \E i \in DOMAIN clause.terms.value.items :
                    a[clause.terms.field] = clause.terms.value.items[i].n
          [] node.cls = "NinOperation" ->
                \A i \in DOMAIN clause.bool.must_not.terms.value.items :
                    a[clause.bool.must_not.terms.field]
                        # clause.bool.must_not.terms.value.items[i].n
          [] OTHER -> RangeMatches(clause, a)

\* must: all clauses match; should: at least one; must_not: none.
Bucket(cls, matches) ==
    CASE cls = "AndOperation" -> \A i \in DOMAIN matches : matches[i]
      [] cls = "OrOperation" -> \E i \in DOMAIN matches : matches[i]
      [] cls = "NotOperation" -> \A i \in DOMAIN matches : ~matches[i]

\* The document `doc` emitted for the logical node `node`, read on a: its
\* non-range clauses are those of the children that emitted them, its range
\* clauses are read as they stand in the document.
RECURSIVE EmittedMatches(_, _, _)
ChildClauseMatches(child, a) ==
    IF IsLogical(child)
    THEN EmittedMatches(child, convert_to_elasticsearch(child), a)
    ELSE LeafClauseMatches(child, a)

EmittedMatches(node, doc, a) ==
    LET others == SelectSeq(node.conditions,
                      LAMBDA c : ~IsRange(convert_to_elasticsearch(c)))
        ranges == SelectSeq(BoolClauses(doc), LAMBDA c : IsRange(c))
    IN  Bucket(node.cls,
            [i \in DOMAIN others |-> ChildClauseMatches(others[i], a)]
            \o [i \in DOMAIN ranges |-> RangeMatches(ranges[i], a)])

\* The list of the emitted children before the merge, read on a.
UnmergedMatches(node, a) ==
    Bucket(node.cls,
        [i \in DOMAIN node.conditions |-> ChildClauseMatches(node.conditions[i], a)])

(***************************************************************************)
(* C11: the range merge preserves the meaning of the query in every        *)
(* bucket: for an And, Or or Not node and every assignment of values to    *)
(* fields, the clause list after _merge_es_range_queries matches exactly   *)
(* when the list of the emitted children before the merge does.            *)
(***************************************************************************)
C11_MergePreservesMeaning ==
    (/\ pc = "elasticsearch"
     /\ IsLogical(tree)
     /\ IntTyped(tree)
     /\ NoEmptyLogical(tree)
     /\ ~IsErr(result))
    => \A a \in Assignments : EmittedMatches(tree, result, a) = UnmergedMatches(tree, a)
====
